---- MODULE Spec2Model ----
(***************************************************************************)
(* A model of preprocess_notebooks.py: the notebook pre-processing         *)
(* pipeline process_notebook and the cell / metadata transformations it    *)
(* is built from.                                                          *)
(*                                                                         *)
(* Representation.                                                         *)
(*  - A Python dict is a function whose DOMAIN is the set of its keys.     *)
(*  - A Python str that the program takes apart (a source line, a kernel   *)
(*    language) is a tuple of one-character strings.  Keys and tags, which *)
(*    the program only compares, are TLA+ strings.                         *)
(*  - A cell source is a record: Text(lines) is a str, held as the result  *)
(*    of split("\n") (a str always has at least one line); EmptyList is    *)
(*    the Python list []; a panel record is the HTML text produced by      *)
(*    new_source.format(...), held as the values substituted in it.        *)
(***************************************************************************)
EXTENDS Integers, Sequences, FiniteSets, TLC

VARIABLES pc, nb, input, strip_input, ind, log, written, failed, diag, run, first_input

vars == <<pc, nb, input, strip_input, ind, log, written, failed, diag, run, first_input>>

----------------------------------------------------------------------------
(* Bounds of the model *)

MaxCells == 2
MaxTags == 2
MaxLines == 3

\* invocations of the tool in a row, each on the file the previous one wrote
MaxRuns == 2

----------------------------------------------------------------------------
(* dict helpers *)

EmptyMap == <<>>

Get(d, k, default) == IF k \in DOMAIN d THEN d[k] ELSE default

Pop(d, k) == [x \in (DOMAIN d) \ {k} |-> d[x]]

Put(d, k, v) == [x \in (DOMAIN d) \cup {k} |-> IF x = k THEN v ELSE d[x]]

Range(s) == {s[i] : i \in DOMAIN s}

----------------------------------------------------------------------------
(* str helpers, on tuples of characters *)

LowerChar(c) ==
    CASE c = "P" -> "p" [] c = "Y" -> "y" [] c = "T" -> "t" [] c = "H" -> "h"
      [] c = "O" -> "o" [] c = "N" -> "n" [] c = "I" -> "i" [] c = "J" -> "j"
      [] c = "R" -> "r" [] OTHER -> c

Lower(s) == [i \in DOMAIN s |-> LowerChar(s[i])]

Contains(s, sub) ==
    \E i \in 0..(Len(s) - Len(sub)) : SubSeq(s, i + 1, i + Len(sub)) = sub

StartsWith(s, prefix) ==
    Len(s) >= Len(prefix) /\ SubSeq(s, 1, Len(prefix)) = prefix

IsSpace(c) == c = " "

RECURSIVE LStrip(_)
LStrip(s) == IF s # <<>> /\ IsSpace(s[1]) THEN LStrip(Tail(s)) ELSE s

RECURSIVE RStrip(_)
RStrip(s) ==
    IF s # <<>> /\ IsSpace(s[Len(s)]) THEN RStrip(SubSeq(s, 1, Len(s) - 1)) ELSE s

Strip(s) == RStrip(LStrip(s))

HashHash == <<"#", "#">>

\* str.replace("##", ""): non-overlapping occurrences, left to right
RECURSIVE RemoveHashHash(_)
RemoveHashHash(s) ==
    IF s = <<>> THEN <<>>
    ELSE IF StartsWith(s, HashHash) THEN RemoveHashHash(SubSeq(s, 3, Len(s)))
    ELSE <<s[1]>> \o RemoveHashHash(Tail(s))

\* list.remove(x): drops the first element equal to x
RECURSIVE ListRemove(_, _)
ListRemove(lines, x) ==
    IF lines = <<>> THEN <<>>
    ELSE IF lines[1] = x THEN Tail(lines)
    ELSE <<lines[1]>> \o ListRemove(Tail(lines), x)

\* "\n".join(lines).strip() is empty iff every line is whitespace only
IsBlank(lines) == \A i \in DOMAIN lines : Strip(lines[i]) = <<>>

----------------------------------------------------------------------------
(* cell sources *)

Text(lines) == [kind |-> "str", lines |-> lines]

EmptyList == [kind |-> "list", lines |-> <<>>]

\* markdown.markdown(input_source, extensions=[...]): the external renderer,
\* kept as the text it was given
Markdown(lines) == [html_of |-> lines]

Panel(tag, formatter, title, body) ==
    [kind |-> "panel", tag |-> tag, panel_type |-> formatter.panel_type,
     fa_type |-> formatter.fa_type, title |-> title, body |-> body]

\* body.format(content=content), or "" when there is nothing to show
PanelBody(content) == [present |-> TRUE, content |-> content]

NoBody == [present |-> FALSE, content |-> Markdown(<<>>)]

----------------------------------------------------------------------------
(* module-level data *)

formats ==
    [t \in {"objectives", "callout", "challenge", "solution", "keypoints", "challange"} |->
        CASE t = "objectives" -> [panel_type |-> "warning", fa_type |-> "certificate"]
          [] t = "callout"    -> [panel_type |-> "warning", fa_type |-> "thumb-tack"]
          [] t = "challenge"  -> [panel_type |-> "success", fa_type |-> "pencil"]
          [] t = "solution"   -> [panel_type |-> "primary", fa_type |-> "eye"]
          [] t = "keypoints"  -> [panel_type |-> "success", fa_type |-> "exclamation-circle"]
          [] t = "challange"  -> [panel_type |-> "success", fa_type |-> "pencil"]]

\* the text returned by swc_attribution(), one line per element; the notice
\* is never taken apart, so each line is held as a single token
swc_attribution ==
    << <<"---">>,
       <<"The material in this notebook is derived from the Software Carpentry lessons">>,
       <<"&copy; [Software Carpentry](http://software-carpentry.org/) under the terms">>,
       <<"of the [CC-BY 4.0](https://creativecommons.org/licenses/by/4.0/) license.">> >>

allowed_keys == {"source_hidden", "notebook_only"}

python == <<"p", "y", "t", "h", "o", "n">>

default_py_kernel ==
    [name |-> "python3", display_name |-> "Python 3", language |-> python]

\* nbformat.v4.new_markdown_cell(text)
new_markdown_cell(lines) ==
    [cell_type |-> "markdown", source |-> Text(lines), metadata |-> EmptyMap]

----------------------------------------------------------------------------
(* the cell transformations *)

TagList(cell) == Get(cell.metadata, "tags", <<>>)

tagged_cell_any_type(cell) == Len(TagList(cell)) > 0

tagged_cell(cell) ==
    /\ Len(TagList(cell)) > 0
    /\ cell.cell_type = "markdown"

\* the "Extract the header" loop: every line that starts with "##" overwrites
\* title_line and title
RECURSIVE ScanTitle(_, _)
ScanTitle(lines, acc) ==
    IF lines = <<>> THEN acc
    ELSE ScanTitle(Tail(lines),
                   IF StartsWith(lines[1], HashHash)
                   THEN [found |-> TRUE, title_line |-> lines[1],
                         title |-> Strip(RemoveHashHash(lines[1]))]
                   ELSE acc)

ExtractTitle(lines) ==
    LET r == ScanTitle(lines, [found |-> FALSE, title_line |-> <<>>, title |-> <<>>])
    IN  [title |-> r.title,
         found |-> r.found,
         title_line |-> r.title_line,
         lines |-> IF r.found THEN ListRemove(lines, r.title_line) ELSE lines]

\* formatter.get('prolog', "") + cell['source'], as lines
WithProlog(formatter, lines) ==
    <<Get(formatter, "prolog", <<>>) \o lines[1]>> \o Tail(lines)

FormatTags(cell) == Range(TagList(cell)) \cap DOMAIN formats

\* Iterating a set of str has no fixed order: list(tags)[0] can be any member
FirstOfTagSet(cell) ==
    IF TagList(cell) = <<>> THEN {"-"} ELSE Range(TagList(cell))

\* process_tagged_cell; first is the value of list(tags)[0]
process_tagged_cell(cell, first) ==
    IF FormatTags(cell) = {} THEN cell
    ELSE IF first \notin DOMAIN formats THEN cell
    ELSE LET formatter == formats[first]
             ex == ExtractTitle(WithProlog(formatter, cell.source.lines))
             body == IF IsBlank(ex.lines) THEN NoBody
                     ELSE PanelBody(Markdown(ex.lines))
         IN  [cell EXCEPT !.source = Panel(first, formatter, ex.title, body)]

\* what process_tagged_cell prints
tagged_cell_messages(cell, first) ==
    IF FormatTags(cell) = {} THEN <<>>
    ELSE (IF Cardinality(FormatTags(cell)) > 1 THEN <<"two or more format tags found">> ELSE <<>>)
         \o (IF first \notin DOMAIN formats THEN <<"No formatter found">> ELSE <<>>)

process_cell_metadata_keeps_all(cell) == cell

process_cell_metadata(cell) ==
    [cell EXCEPT !.metadata =
        [k \in (DOMAIN cell.metadata) \cap allowed_keys |-> cell.metadata[k]]]

strip_cell_input_always(cell) ==
    IF cell.cell_type = "code" THEN [cell EXCEPT !.source = EmptyList] ELSE cell

strip_cell_input(cell) ==
    IF cell.cell_type = "code" /\ "keep_input" \notin Range(TagList(cell))
    THEN [cell EXCEPT !.source = EmptyList]
    ELSE cell

\* the "bash kernel sillyness" of process_cell
repair_outputs(cell) ==
    LET outputs == Get(cell, "outputs", <<>>)
    IN  IF Len(outputs) >= 2 /\ "execution_count" \in DOMAIN outputs[2]
        THEN [cell EXCEPT !.outputs[2] = Pop(outputs[2], "execution_count")]
        ELSE cell

process_cell_allowlist_first(cell, strip, first) ==
    LET c1 == repair_outputs(cell)
        c2 == IF tagged_cell(c1) THEN process_tagged_cell(c1, first) ELSE c1
        c3 == process_cell_metadata(c2)
    IN  IF strip THEN strip_cell_input(c3) ELSE c3

process_cell(cell, strip, first) ==
    LET c1 == repair_outputs(cell)
        c2 == IF tagged_cell(c1) THEN process_tagged_cell(c1, first) ELSE c1
    IN  IF strip THEN strip_cell_input(c2) ELSE c2

process_cell_messages(cell, first) ==
    IF tagged_cell(cell) THEN tagged_cell_messages(cell, first) ELSE <<>>

----------------------------------------------------------------------------
(* the notebook transformations *)

strip_kernel_information_case_sensitive(n) ==
    LET ks == Get(n.metadata, "kernelspec", EmptyMap)
    IN  IF Contains(Get(ks, "language", <<>>), python)
        THEN [n EXCEPT !.metadata = Put(n.metadata, "kernelspec", default_py_kernel)]
        ELSE n

strip_kernel_information(n) ==
    LET ks == Get(n.metadata, "kernelspec", EmptyMap)
    IN  IF Contains(Lower(Get(ks, "language", <<>>)), python)
        THEN [n EXCEPT !.metadata = Put(n.metadata, "kernelspec", default_py_kernel)]
        ELSE n

process_notebook_metadata(n) ==
    LET n1 == strip_kernel_information(n)
    IN  [n1 EXCEPT !.metadata = Pop(n1.metadata, "celltoolbar")]

append_attribution_once(n) ==
    IF /\ "swc_attribution" \in DOMAIN n.metadata
       /\ (n.cells = <<>> \/ n.cells[Len(n.cells)] # new_markdown_cell(swc_attribution))
    THEN [n EXCEPT !.cells = Append(n.cells, new_markdown_cell(swc_attribution))]
    ELSE n

append_attribution_first(n) ==
    IF "swc_attribution" \in DOMAIN n.metadata
    THEN [n EXCEPT !.cells = <<new_markdown_cell(swc_attribution)>> \o n.cells]
    ELSE n

\* the tail of process_cells, after the loop
append_attribution(n) ==
    IF "swc_attribution" \in DOMAIN n.metadata
    THEN [n EXCEPT !.cells = Append(n.cells, new_markdown_cell(swc_attribution))]
    ELSE n

\* nbstripout.strip_output(nb, keep_output=False, keep_count=False): the
\* external routine, as far as the fields of this model go
strip_output_cell(cell) ==
    IF cell.cell_type = "code"
    THEN [cell EXCEPT !.outputs = <<>>, !.execution_count = 0]
    ELSE cell

strip_output(n) == [n EXCEPT !.cells = [i \in DOMAIN n.cells |-> strip_output_cell(n.cells[i])]]

----------------------------------------------------------------------------
(* input documents *)

SeqsUpTo(S, n) == UNION {[1..k -> S] : k \in 0..n}

NonEmptySeqsUpTo(S, n) == UNION {[1..k -> S] : k \in 1..n}

\* a metadata dict: "tags" maps to a list of tags, any other key to a flag
Meta(hasTags, tags, extras) ==
    [k \in (IF hasTags THEN {"tags"} ELSE {}) \cup extras |->
        IF k = "tags" THEN tags ELSE TRUE]

MdCell(src, meta) == [cell_type |-> "markdown", source |-> src, metadata |-> meta]

RawCell(src, meta) == [cell_type |-> "raw", source |-> src, metadata |-> meta]

CodeCell(src, meta, outs) ==
    [cell_type |-> "code", source |-> src, metadata |-> meta,
     outputs |-> outs, execution_count |-> 1]

Stream == [output_type |-> "stream"]

Result == [output_type |-> "execute_result", execution_count |-> 1]

OutputLists == {<<>>, <<Result>>, <<Stream, Result>>, <<Stream, Stream>>}

LineTitle == <<"#", "#", " ", "T">>

LineSub == <<"#", "#", "#", " ", "S">>

LineBody == <<"b", "o", "d", "y">>

LineCode == <<"x", "=", "1">>

\* the lines title extraction is exercised on
LinePool ==
    {LineTitle, LineSub, <<"#", "#", "U", " ">>, HashHash, LineBody, <<>>, <<" ">>, <<"#", "x">>}

TagPool == {"challenge", "solution", "keep_input", "note"}

MetaPool ==
    {Meta(FALSE, <<>>, ex) : ex \in SUBSET {"source_hidden", "collapsed"}}
    \cup {Meta(TRUE, tl, ex) : tl \in SeqsUpTo(TagPool, MaxTags),
                               ex \in SUBSET {"source_hidden", "collapsed"}}

SourcePool == {Text(<<LineTitle, LineBody>>), Text(<<LineBody>>), Text(<<LineTitle>>)}

\* the cells one call of process_cell is checked on
CellPool ==
    {MdCell(src, m) : src \in SourcePool, m \in MetaPool}
    \cup {RawCell(Text(<<LineBody>>), m) : m \in MetaPool}
    \cup {CodeCell(Text(<<LineCode>>), m, outs) : m \in MetaPool, outs \in OutputLists}

\* the cells title extraction is checked on
TitleCellPool ==
    {MdCell(Text(ls), Meta(TRUE, <<"challenge">>, {})) : ls \in NonEmptySeqsUpTo(LinePool, MaxLines)}

\* the cells whole documents are built from
DocCellPool ==
    { CodeCell(Text(<<LineCode>>), Meta(FALSE, <<>>, {"collapsed"}), <<Stream, Result>>),
      CodeCell(Text(<<LineCode>>), Meta(TRUE, <<"keep_input">>, {"source_hidden"}), <<Result>>),
      CodeCell(Text(<<LineCode>>), Meta(TRUE, <<"challenge">>, {}), <<>>),
      MdCell(Text(<<LineTitle>>), Meta(FALSE, <<>>, {})),
      MdCell(Text(<<LineTitle, LineBody>>), Meta(TRUE, <<"challenge">>, {"notebook_only"})),
      MdCell(Text(<<LineBody>>), Meta(TRUE, <<"note", "solution">>, {"collapsed"})),
      RawCell(Text(<<LineBody>>), Meta(TRUE, <<"note">>, {})) }

LanguagePool ==
    { python,
      <<"P", "y", "t", "h", "o", "n">>,
      <<"P", "Y", "T", "H", "O", "N">>,
      <<"i", "p", "y", "t", "h", "o", "n">>,
      <<"I", "P", "y", "t", "h", "o", "n", "3">>,
      <<"p", "y", "t", "h", "o", "n", "2">>,
      <<"p", "y", "t", "h", "o">>,
      <<"j", "u", "l", "i", "a">>,
      <<"b", "a", "s", "h">>,
      <<"R">>,
      <<>> }

KernelSpecPool ==
    {[name |-> n] : n \in {"python2", "ir"}}
    \cup {[name |-> n, display_name |-> "Kernel", language |-> l] :
            n \in {"python2", "ir"}, l \in LanguagePool}
    \cup {default_py_kernel}

\* a document metadata dict
DocMeta(hasKs, ks, flags) ==
    [k \in (IF hasKs THEN {"kernelspec"} ELSE {}) \cup flags |->
        IF k = "kernelspec" THEN ks ELSE TRUE]

DocMetaPool ==
    {DocMeta(FALSE, EmptyMap, fl) : fl \in SUBSET {"celltoolbar", "swc_attribution", "title"}}
    \cup {DocMeta(TRUE, ks, fl) : ks \in KernelSpecPool,
                                  fl \in SUBSET {"celltoolbar", "swc_attribution", "title"}}

SmallDocMetaPool ==
    { DocMeta(FALSE, EmptyMap, {}),
      DocMeta(FALSE, EmptyMap, {"swc_attribution"}),
      DocMeta(TRUE, [name |-> "python2", display_name |-> "Kernel",
                     language |-> <<"P", "y", "t", "h", "o", "n">>],
              {"celltoolbar", "swc_attribution"}),
      DocMeta(TRUE, [name |-> "ir", display_name |-> "Kernel", language |-> <<"R">>],
              {"celltoolbar"}) }

Notebook(cells, meta) == [cells |-> cells, metadata |-> meta]

NoNotebook == Notebook(<<>>, EmptyMap)

Documents == {Notebook(cs, m) : cs \in SeqsUpTo(DocCellPool, MaxCells), m \in SmallDocMetaPool}

----------------------------------------------------------------------------
(* process_notebook, one action per statement; the loop of process_cells   *)
(* takes one action per call it makes                                      *)

Stages == <<"load", "metadata", "cells", "strip_output", "validate", "write">>

Init ==
    /\ input \in Documents
    /\ strip_input \in BOOLEAN
    /\ nb = NoNotebook
    /\ pc = "load"
    /\ ind = 0
    /\ log = <<>>
    /\ written = 0
    /\ failed = FALSE
    /\ diag = <<>>
    /\ run = 1
    /\ first_input = input

\* nb = nbformat.read(str(input_file), as_version=4)
Load ==
    /\ pc = "load"
    /\ nb' = input
    /\ log' = Append(log, "load")
    /\ pc' = "metadata"
    /\ UNCHANGED <<input, strip_input, ind, written, failed, diag, run, first_input>>

\* nbformat.read raises: the input is no notebook
LoadFail ==
    /\ pc = "load"
    /\ failed' = TRUE
    /\ pc' = "aborted"
    /\ UNCHANGED <<nb, input, strip_input, ind, log, written, diag, run, first_input>>

\* nb = process_notebook_metadata(nb)
ProcessNotebookMetadata ==
    /\ pc = "metadata"
    /\ nb' = process_notebook_metadata(nb)
    /\ log' = Append(log, "metadata")
    /\ ind' = 1
    /\ pc' = IF nb.cells = <<>> THEN "attribution" ELSE "cell"
    /\ UNCHANGED <<input, strip_input, written, failed, diag, run, first_input>>

\* cell = process_cell(cell, **kwargs), for the cell at ind
ProcessCell ==
    /\ pc = "cell"
    /\ \E first \in FirstOfTagSet(nb.cells[ind]) :
        /\ nb' = [nb EXCEPT !.cells[ind] = process_cell(nb.cells[ind], strip_input, first)]
        /\ diag' = diag \o process_cell_messages(nb.cells[ind], first)
    /\ pc' = "cell_metadata"
    /\ UNCHANGED <<input, strip_input, ind, log, written, failed, run, first_input>>

\* cell = process_cell_metadata(cell, **kwargs); nb['cells'][ind] = cell
ProcessCellMetadata ==
    /\ pc = "cell_metadata"
    /\ nb' = [nb EXCEPT !.cells[ind] = process_cell_metadata(nb.cells[ind])]
    /\ ind' = ind + 1
    /\ pc' = IF ind = Len(nb.cells) THEN "attribution" ELSE "cell"
    /\ UNCHANGED <<input, strip_input, log, written, failed, diag, run, first_input>>

\* the end of process_cells
AppendAttribution ==
    /\ pc = "attribution"
    /\ nb' = append_attribution(nb)
    /\ log' = Append(log, "cells")
    /\ pc' = "strip_output"
    /\ UNCHANGED <<input, strip_input, ind, written, failed, diag, run, first_input>>

\* nb = nbstripout.strip_output(nb, keep_output=False, keep_count=False)
StripOutput ==
    /\ pc = "strip_output"
    /\ nb' = strip_output(nb)
    /\ log' = Append(log, "strip_output")
    /\ pc' = "validate"
    /\ UNCHANGED <<input, strip_input, ind, written, failed, diag, run, first_input>>

\* nbformat.validate(nb) returns
Validate ==
    /\ pc = "validate"
    /\ log' = Append(log, "validate")
    /\ pc' = "write"
    /\ UNCHANGED <<nb, input, strip_input, ind, written, failed, diag, run, first_input>>

ValidateFailIgnored ==
    /\ pc = "validate"
    /\ failed' = TRUE
    /\ pc' = "write"
    /\ UNCHANGED <<nb, input, strip_input, ind, log, written, diag, run, first_input>>

\* nbformat.validate(nb) raises
ValidateFail ==
    /\ pc = "validate"
    /\ failed' = TRUE
    /\ pc' = "aborted"
    /\ UNCHANGED <<nb, input, strip_input, ind, log, written, diag, run, first_input>>

\* nbformat.write(nb, str(output_file))
Write ==
    /\ pc = "write"
    /\ written' = written + 1
    /\ log' = Append(log, "write")
    /\ pc' = "done"
    /\ UNCHANGED <<nb, input, strip_input, ind, failed, diag, run, first_input>>

\* a further invocation, on the file the previous one wrote
Rerun ==
    /\ pc = "done"
    /\ run < MaxRuns
    /\ run' = run + 1
    /\ input' = nb
    /\ nb' = NoNotebook
    /\ pc' = "load"
    /\ ind' = 0
    /\ log' = <<>>
    /\ written' = 0
    /\ diag' = <<>>
    /\ UNCHANGED <<strip_input, failed, first_input>>

Next ==
    \/ Load
    \/ LoadFail
    \/ ProcessNotebookMetadata
    \/ ProcessCell
    \/ ProcessCellMetadata
    \/ AppendAttribution
    \/ StripOutput
    \/ Validate
    \/ ValidateFail
    \/ Write
    \/ Rerun

Spec == Init /\ [][Next]_vars

----------------------------------------------------------------------------
(* one iteration of the loop of process_cells, on a cell of CellPool *)

InitLoop(cells) ==
    /\ input \in {Notebook(<<c>>, EmptyMap) : c \in cells}
    /\ strip_input \in BOOLEAN
    /\ nb = input
    /\ pc = "cell"
    /\ ind = 1
    /\ log = <<"load", "metadata">>
    /\ written = 0
    /\ failed = FALSE
    /\ diag = <<>>
    /\ run = 1
    /\ first_input = input

InitCell == InitLoop(CellPool)

InitTitle == InitLoop(TitleCellPool)

NextCell ==
    \/ ProcessCell
    \/ ProcessCellMetadata

SpecCell == InitCell /\ [][NextCell]_vars

SpecTitle == InitTitle /\ [][NextCell]_vars

----------------------------------------------------------------------------
(* process_notebook_metadata alone, on the metadata of DocMetaPool *)

InitMeta ==
    /\ input \in {Notebook(<<>>, m) : m \in DocMetaPool}
    /\ strip_input = TRUE
    /\ nb = input
    /\ pc = "metadata"
    /\ ind = 0
    /\ log = <<"load">>
    /\ written = 0
    /\ failed = FALSE
    /\ diag = <<>>
    /\ run = 1
    /\ first_input = input

NextMeta == ProcessNotebookMetadata

SpecMeta == InitMeta /\ [][NextMeta]_vars

----------------------------------------------------------------------------
(* properties *)

CellsDone == "cells" \in Range(log)

HasTag(cell, t) == t \in Range(TagList(cell))

IsPrefix(s, t) == Len(s) <= Len(t) /\ SubSeq(t, 1, Len(s)) = s

\* C1: once process_cells has run, the metadata of every cell of the
\* document, an appended attribution cell included, has only keys of
\* {"source_hidden", "notebook_only"}; no cell keeps a "tags" key.
C1_MetadataAllowListed ==
    CellsDone =>
        \A i \in DOMAIN nb.cells :
            /\ DOMAIN nb.cells[i].metadata \subseteq allowed_keys
            /\ "tags" \notin DOMAIN nb.cells[i].metadata

C1_Witness ==
    /\ pc = "strip_output"
    /\ run = 1
    /\ Len(nb.cells) = Len(input.cells) + 1
    /\ \E i \in DOMAIN input.cells :
        /\ "tags" \in DOMAIN input.cells[i].metadata
        /\ "collapsed" \in DOMAIN input.cells[i].metadata
        /\ DOMAIN nb.cells[i].metadata = {}

\* C2: with strip_input enabled, after process_cells every code cell whose
\* input tags lack "keep_input" has the empty list as source, and every code
\* cell whose input tags include "keep_input" has its input source.
C2_StripInput ==
    (strip_input /\ CellsDone) =>
        \A i \in DOMAIN input.cells :
            input.cells[i].cell_type = "code" =>
                IF HasTag(input.cells[i], "keep_input")
                THEN nb.cells[i].source = input.cells[i].source
                ELSE nb.cells[i].source = EmptyList

C2_Witness ==
    /\ pc = "done"
    /\ run = 1
    /\ strip_input
    /\ \E i, j \in DOMAIN input.cells :
        /\ input.cells[i].cell_type = "code"
        /\ HasTag(input.cells[i], "keep_input")
        /\ nb.cells[i].source = Text(<<LineCode>>)
        /\ input.cells[j].cell_type = "code"
        /\ ~HasTag(input.cells[j], "keep_input")
        /\ input.cells[j].source = Text(<<LineCode>>)
        /\ nb.cells[j].source = EmptyList

\* C3: with strip_input disabled, process_cell leaves the source of a cell as
\* it was when the cell is not markdown, has no tags, or has no tag that is a
\* key of the format table.
C3_SourceFrame ==
    (pc = "cell_metadata" /\ ~strip_input
        /\ (input.cells[ind].cell_type # "markdown" \/ FormatTags(input.cells[ind]) = {})) =>
        nb.cells[ind].source = input.cells[ind].source

C3_Witness ==
    /\ pc = "cell_metadata"
    /\ ~strip_input
    /\ input.cells[ind].cell_type = "code"
    /\ HasTag(input.cells[ind], "challenge")
    /\ nb.cells[ind].source = input.cells[ind].source

\* C4: process_cells on a document with the "swc_attribution" metadata key
\* gives one cell more: the input cells, processed, in their order, then a
\* markdown cell holding the licence notice; without the key the number of
\* cells stays.
C4_Attribution ==
    /\ CellsDone =>
        IF "swc_attribution" \in DOMAIN input.metadata
        THEN /\ Len(nb.cells) = Len(input.cells) + 1
             /\ nb.cells[Len(nb.cells)].cell_type = "markdown"
             /\ nb.cells[Len(nb.cells)].source = Text(swc_attribution)
        ELSE Len(nb.cells) = Len(input.cells)
    /\ pc = "strip_output" =>
        \A i \in DOMAIN input.cells :
            nb.cells[i] \in
                {process_cell_metadata(process_cell(input.cells[i], strip_input, f)) :
                    f \in FirstOfTagSet(input.cells[i])}

C4_Witness ==
    /\ pc = "strip_output"
    /\ run = 1
    /\ "swc_attribution" \in DOMAIN input.metadata
    /\ Len(input.cells) = 2
    /\ input.cells[1].cell_type # input.cells[2].cell_type
    /\ Len(nb.cells) = 3
    /\ nb.cells[3] = new_markdown_cell(swc_attribution)

Language(n) == Get(Get(n.metadata, "kernelspec", EmptyMap), "language", <<>>)

\* what process_notebook_metadata does when the kernel specification is
\* replaced exactly for the documents selected by isPython
MetadataNormalized(isPython) ==
    /\ IF isPython
       THEN /\ "kernelspec" \in DOMAIN nb.metadata
            /\ nb.metadata["kernelspec"] = default_py_kernel
       ELSE /\ ("kernelspec" \in DOMAIN nb.metadata) = ("kernelspec" \in DOMAIN input.metadata)
            /\ "kernelspec" \in DOMAIN nb.metadata =>
                    nb.metadata["kernelspec"] = input.metadata["kernelspec"]
    /\ "celltoolbar" \notin DOMAIN nb.metadata
    /\ \A k \in (DOMAIN nb.metadata \cup DOMAIN input.metadata) \ {"kernelspec", "celltoolbar"} :
        /\ k \in DOMAIN nb.metadata
        /\ k \in DOMAIN input.metadata
        /\ nb.metadata[k] = input.metadata[k]

\* C5 as stated: the kernel specification is replaced exactly when the
\* declared language is "python" up to case.
C5_Original ==
    pc = "attribution" => MetadataNormalized(Lower(Language(input)) = python)

\* C5, amended: process_notebook_metadata puts the canonical descriptor in
\* place of the kernel specification exactly when the declared language,
\* lower-cased, contains "python"; otherwise the kernel specification stays as
\* it was; in both cases "celltoolbar" is removed and every other document
\* metadata key is kept with its value.
C5_KernelNormalized ==
    pc = "attribution" => MetadataNormalized(Contains(Lower(Language(input)), python))

C5_Witness ==
    /\ pc = "attribution"
    /\ Language(input) = <<"I", "P", "y", "t", "h", "o", "n", "3">>
    /\ "celltoolbar" \in DOMAIN input.metadata
    /\ "title" \in DOMAIN nb.metadata
    /\ nb.metadata["kernelspec"] = default_py_kernel

\* C6: the output is written at most once per run, and only when load,
\* metadata normalization, cell processing, output stripping and validation
\* have completed in that order; a run in which load or validation fails
\* aborts and never writes.
C6_WriteLast ==
    /\ IsPrefix(log, Stages)
    /\ written <= 1
    /\ (written = 1) = (log = Stages)
    /\ failed => (written = 0 /\ pc = "aborted")
    /\ pc = "aborted" => failed

C6_Witness ==
    /\ pc = "done"
    /\ written = 1
    /\ log = Stages
    /\ ~failed

\* C7: the pipeline is not idempotent.  A second run on the output of a
\* first one appends a further attribution cell when the document has the
\* attribution key, and (strip_input enabled) blanks every code cell that
\* kept a non-empty source in the first run through "keep_input".
C7_NotIdempotent ==
    (run >= 2 /\ CellsDone) =>
        /\ "swc_attribution" \in DOMAIN input.metadata =>
                /\ Len(nb.cells) = Len(input.cells) + 1
                /\ input.cells[Len(input.cells)] = new_markdown_cell(swc_attribution)
        /\ (run = 2 /\ strip_input) =>
            \A i \in DOMAIN first_input.cells :
                (first_input.cells[i].cell_type = "code"
                    /\ HasTag(first_input.cells[i], "keep_input")) =>
                        /\ input.cells[i].source = first_input.cells[i].source
                        /\ nb.cells[i].source = EmptyList

C7_Witness ==
    /\ run = 2
    /\ pc = "done"
    /\ strip_input
    /\ "swc_attribution" \in DOMAIN input.metadata
    /\ Len(nb.cells) = Len(first_input.cells) + 2
    /\ \E i \in DOMAIN first_input.cells :
        /\ first_input.cells[i].cell_type = "code"
        /\ HasTag(first_input.cells[i], "keep_input")
        /\ input.cells[i].source = Text(<<LineCode>>)
        /\ nb.cells[i].source = EmptyList

\* C8: when a markdown cell has a tag that is a key of the format table,
\* the tag process_tagged_cell picks is one of those, "No formatter found" is
\* not printed, and the cell is rewritten into a panel.
C8_ChosenTagRecognized ==
    (pc = "cell_metadata" /\ input.cells[ind].cell_type = "markdown"
        /\ FormatTags(input.cells[ind]) # {}) =>
        /\ nb.cells[ind].source.kind = "panel"
        /\ nb.cells[ind].source.tag \in FormatTags(input.cells[ind])
        /\ "No formatter found" \notin Range(diag)

HasTitleLine(lines) == \E k \in DOMAIN lines : StartsWith(lines[k], HashHash)

FirstTitleIndex(lines) ==
    CHOOSE k \in DOMAIN lines :
        /\ StartsWith(lines[k], HashHash)
        /\ \A j \in 1..(k - 1) : ~StartsWith(lines[j], HashHash)

RemoveAt(lines, k) == SubSeq(lines, 1, k - 1) \o SubSeq(lines, k + 1, Len(lines))

BodyShows(src, rest) ==
    IF IsBlank(rest) THEN src.body = NoBody ELSE src.body = PanelBody(Markdown(rest))

\* C9: the title of the panel is the text of the first source line that
\* begins with "##", and that line is the one left out of the rendered body.
C9_FirstTitleLine ==
    pc = "cell_metadata" =>
        LET lines == input.cells[ind].source.lines
            src == nb.cells[ind].source
        IN  /\ src.kind = "panel"
            /\ IF HasTitleLine(lines)
               THEN /\ src.title = Strip(RemoveHashHash(lines[FirstTitleIndex(lines)]))
                    /\ BodyShows(src, RemoveAt(lines, FirstTitleIndex(lines)))
               ELSE /\ src.title = <<>>
                    /\ BodyShows(src, lines)

\* C10 as stated: when the "keep_input" check and input stripping of a cell
\* have been done, the metadata of the cell has already been allow-listed.
C10_Original ==
    pc = "cell_metadata" => DOMAIN nb.cells[ind].metadata \subseteq allowed_keys

\* C10, amended: for each cell the steps run in the order output repair,
\* tagged-markdown rewrite, optional input stripping, metadata allow-listing:
\* when process_cell has returned, the stripping has been decided on the
\* tags of the input cell and the metadata is still that of the input; it is
\* allow-listed by the step that follows.
C10_StripBeforeAllowList ==
    /\ pc = "cell_metadata" =>
        /\ nb.cells[ind].metadata = input.cells[ind].metadata
        /\ (strip_input /\ input.cells[ind].cell_type = "code") =>
              nb.cells[ind].source =
                  IF HasTag(input.cells[ind], "keep_input")
                  THEN input.cells[ind].source ELSE EmptyList
    /\ pc = "attribution" =>
        /\ DOMAIN nb.cells[1].metadata \subseteq allowed_keys
        /\ nb.cells[1].source \in
              {process_cell(input.cells[1], strip_input, f).source :
                  f \in FirstOfTagSet(input.cells[1])}

C10_Witness ==
    /\ pc = "attribution"
    /\ strip_input
    /\ input.cells[1].cell_type = "code"
    /\ HasTag(input.cells[1], "keep_input")
    /\ "collapsed" \in DOMAIN input.cells[1].metadata
    /\ nb.cells[1].source = Text(<<LineCode>>)
    /\ DOMAIN nb.cells[1].metadata = {}

====
